---- MODULE Spec2Model ----
(***************************************************************************)
(* Battery arbitrage back-tester: the battery model                        *)
(* (scripts/assets/battery.py), the day's LP (scripts/optimizer/model.py), *)
(* the scheduler (scripts/optimizer/scheduler.py), the P&L calculator and  *)
(* the rolling simulator (scripts/market_simulator/).                      *)
(*                                                                         *)
(* Python floats are modelled as exact rationals in fixed point:           *)
(*   energy      1 MWh  = MWh     units (0.005 MWh each)                   *)
(*   efficiency  1.0    = EffOne  units (tenths)                           *)
(*   soc         1.0    = SocOne  units                                    *)
(*   cycle_count 1.0    = CycleOne units                                   *)
(*   soh         a signed big rational, see "soh arithmetic" below         *)
(* All divisions the code performs are exact on the values enumerated.     *)
(***************************************************************************)
EXTENDS Integers, Sequences, FiniteSets, TLC

VARIABLES battery,        \* the Battery object
          last_call,      \* history: the last Battery.charge / discharge call
          ops,            \* history: number of charge / discharge calls so far
          pc,             \* position in simulate(), or "direct" for direct calls
          current_day,    \* simulate: the loop variable
          end_day,        \* (end_date - start_date).days
          fault_day,      \* the day on which the solver returns no optimum
          random_state,   \* the state of the global random generator
          max_cycles,     \* the max_cycles argument of create_schedule
          price_model,    \* the price source: a price pair per date
          prices,         \* envelope_prices of the current day
          actual_prices,  \* noisy_prices of the current day
          schedule_df,    \* the schedule of the current day
          row,            \* process_daily_schedule: next row to apply
          results,        \* simulate: the result list
          plan_call       \* history: the battery and objective at create_schedule

vars == <<battery, last_call, ops, pc, current_day, end_day, fault_day, random_state, max_cycles,
          price_model, prices, actual_prices, schedule_df, row, results,
          plan_call>>

simvars == <<pc, current_day, end_day, fault_day, random_state, max_cycles, price_model, prices,
             actual_prices, schedule_df, row, results, plan_call>>

MWh == 200
EffOne == 10
SocOne == 4000
CycleOne == 800

Min(a, b) == IF a <= b THEN a ELSE b
Max(a, b) == IF a >= b THEN a ELSE b
Abs(a) == IF a >= 0 THEN a ELSE 0 - a

(***************************************************************************)
(* soh arithmetic.  soh is sgn * mag / Limb^(1 + 3*exp), mag a sequence of *)
(* base-Limb digits, least significant first: soh = 1.0 is                 *)
(* [sgn |-> 1, mag |-> <<0, 1>>, exp |-> 0].  One multiplication by        *)
(* (1 - degradation_rate) multiplies mag by an integer number of           *)
(* billionths and raises exp by one.                                       *)
(***************************************************************************)
Limb == 1000
Billion == Limb * Limb * Limb

RECURSIVE Trim(_)
Trim(a) == IF a = <<>> THEN a
           ELSE IF a[Len(a)] = 0 THEN Trim(SubSeq(a, 1, Len(a) - 1)) ELSE a

RECURSIVE BigAdd(_, _, _)
BigAdd(a, b, carry) ==
    IF a = <<>> /\ b = <<>>
    THEN (IF carry = 0 THEN <<>> ELSE <<carry>>)
    ELSE LET x == IF a = <<>> THEN 0 ELSE Head(a)
             y == IF b = <<>> THEN 0 ELSE Head(b)
             s == x + y + carry
         IN <<s % Limb>> \o BigAdd(IF a = <<>> THEN a ELSE Tail(a),
                                   IF b = <<>> THEN b ELSE Tail(b),
                                   s \div Limb)

RECURSIVE BigMulDigit(_, _, _)
BigMulDigit(a, k, carry) ==
    IF a = <<>>
    THEN (IF carry = 0 THEN <<>> ELSE <<carry>>)
    ELSE LET p == Head(a) * k + carry
         IN <<p % Limb>> \o BigMulDigit(Tail(a), k, p \div Limb)

RECURSIVE BigMul(_, _)
BigMul(a, m) ==
    IF m = 0 THEN <<>>
    ELSE Trim(BigAdd(BigMulDigit(a, m % Limb, 0),
                     <<0>> \o BigMul(a, m \div Limb), 0))

RECURSIVE BigShift(_, _)
BigShift(a, n) == IF n = 0 \/ a = <<>> THEN a ELSE BigShift(<<0>> \o a, n - 1)

\* -1, 0, 1 as a < b, a = b, a > b (both trimmed)
RECURSIVE BigCmp(_, _)
BigCmp(a, b) ==
    IF Len(a) # Len(b) THEN (IF Len(a) < Len(b) THEN 0 - 1 ELSE 1)
    ELSE IF a = <<>> THEN 0
    ELSE IF a[Len(a)] # b[Len(b)]
         THEN (IF a[Len(a)] < b[Len(b)] THEN 0 - 1 ELSE 1)
         ELSE BigCmp(SubSeq(a, 1, Len(a) - 1), SubSeq(b, 1, Len(b) - 1))

\* the canonical form of a soh value: no common factor Limb^3, zero is +0
RECURSIVE SohNorm(_)
SohNorm(s) ==
    IF Trim(s.mag) = <<>> THEN [sgn |-> 1, mag |-> <<>>, exp |-> 0]
    ELSE IF s.exp > 0 /\ Len(s.mag) > 3
            /\ s.mag[1] = 0 /\ s.mag[2] = 0 /\ s.mag[3] = 0
         THEN SohNorm([s EXCEPT !.mag = SubSeq(s.mag, 4, Len(s.mag)),
                                !.exp = s.exp - 1])
         ELSE [s EXCEPT !.mag = Trim(s.mag)]

\* soh * (m / 10^9) for an integer m
SohTimes(s, m) ==
    SohNorm([sgn |-> IF m < 0 THEN 0 - s.sgn ELSE s.sgn,
             mag |-> BigMul(s.mag, Abs(m)),
             exp |-> s.exp + 1])

\* -1, 0, 1 as a < b, a = b, a > b
SohCmp(a, b) ==
    LET e  == Max(a.exp, b.exp)
        am == BigShift(Trim(a.mag), 3 * (e - a.exp))
        bm == BigShift(Trim(b.mag), 3 * (e - b.exp))
        as == IF am = <<>> THEN 0 ELSE a.sgn
        bs == IF bm = <<>> THEN 0 ELSE b.sgn
    IN IF as # bs THEN (IF as < bs THEN 0 - 1 ELSE 1)
       ELSE IF as = 0 THEN 0
       ELSE as * BigCmp(am, bm)

\* a float in thousandths as a soh value
SohOf(thousandths) ==
    SohNorm([sgn |-> IF thousandths < 0 THEN 0 - 1 ELSE 1,
             mag |-> BigMul(<<1>>, Abs(thousandths)),
             exp |-> 0])

SohZero == SohOf(0)
SohUnit == SohOf(1000)

(***************************************************************************)
(* scripts/assets/battery.py                                               *)
(***************************************************************************)
temp_reference == 25
eff_floor == 5
eff_ceiling == 10

\* adjust_efficiency without the floor at 0.5
adjust_efficiency_no_floor(temperature_c, charge_efficiency, discharge_efficiency) ==
    LET temp_effect == Abs(temperature_c - temp_reference) \div 10
    IN [charge_efficiency |-> Min(charge_efficiency - temp_effect, eff_ceiling),
        discharge_efficiency |-> Min(discharge_efficiency - temp_effect, eff_ceiling)]

\* temp_effect = abs(temperature_c - 25) * 0.01, in tenths (exact for the
\* temperatures 25 + 10 k)
adjust_efficiency(temperature_c, charge_efficiency, discharge_efficiency) ==
    LET temp_effect == Abs(temperature_c - temp_reference) \div 10
    IN [charge_efficiency |->
            Max(eff_floor, Min(charge_efficiency - temp_effect, eff_ceiling)),
        discharge_efficiency |->
            Max(eff_floor, Min(discharge_efficiency - temp_effect, eff_ceiling))]

\* base_degradation = 0.000005 per MWh, in billionths
base_degradation == 5000

\* calculate_soh with the degradation added instead of subtracted
calculate_soh_gain(soh, energy_cycled_mwh, dod) ==
    LET dod_factor == IF 2 * dod > SocOne THEN 2 ELSE 1
        degradation_rate == (base_degradation \div MWh) * energy_cycled_mwh * dod_factor
    IN SohTimes(soh, Billion + degradation_rate)

calculate_soh(soh, energy_cycled_mwh, dod) ==
    LET dod_factor == IF 2 * dod > SocOne THEN 2 ELSE 1
        degradation_rate == (base_degradation \div MWh) * energy_cycled_mwh * dod_factor
    IN SohTimes(soh, Billion - degradation_rate)

check_and_update_cycles(b) ==
    LET cycles == (b.energy_cycled_mwh * CycleOne) \div (2 * b.capacity_mwh)
    IN [b EXCEPT !.cycle_count = b.cycle_count + cycles]

update_soh_and_cycles(b, energy_mwh) ==
    LET b1 == [b EXCEPT !.energy_cycled_mwh = b.energy_cycled_mwh + energy_mwh]
        dod == SocOne - b1.soc
        b2 == [b1 EXCEPT !.soh = calculate_soh(b1.soh, energy_mwh, dod)]
    IN check_and_update_cycles(b2)

\* adjust_efficiency_for_temperature storing the charge efficiency only
adjust_efficiency_for_temperature_charge_only(b) ==
    LET adj == adjust_efficiency(b.temperature_c, b.charge_efficiency,
                                 b.discharge_efficiency)
    IN [b EXCEPT !.charge_efficiency = adj.charge_efficiency]

adjust_efficiency_for_temperature(b) ==
    LET adj == adjust_efficiency(b.temperature_c, b.charge_efficiency,
                                 b.discharge_efficiency)
    IN [b EXCEPT !.charge_efficiency = adj.charge_efficiency,
                 !.discharge_efficiency = adj.discharge_efficiency]

\* energy * efficiency / capacity as a soc difference
SocDelta(energy_mwh, efficiency, capacity_mwh) ==
    (energy_mwh * efficiency * SocOne) \div (EffOne * capacity_mwh)

\* charge without the ceiling at 1.0
charge_no_ceiling(b, energy_mwh0) ==
    LET b1 == adjust_efficiency_for_temperature(b)
        energy_mwh == Min(energy_mwh0, b1.max_charge_rate_mw * b1.duration_hours)
        b2 == [b1 EXCEPT !.soc =
                 b1.soc + SocDelta(energy_mwh, b1.charge_efficiency, b1.capacity_mwh)]
    IN update_soh_and_cycles(b2, energy_mwh)

charge(b, energy_mwh0) ==
    LET b1 == adjust_efficiency_for_temperature(b)
        energy_mwh == Min(energy_mwh0, b1.max_charge_rate_mw * b1.duration_hours)
        b2 == [b1 EXCEPT !.soc =
                 Min(b1.soc + SocDelta(energy_mwh, b1.charge_efficiency,
                                       b1.capacity_mwh), SocOne)]
    IN update_soh_and_cycles(b2, energy_mwh)

\* discharge without the clamp to max_discharge_rate_mw * duration_hours
discharge_no_rate_clamp(b, energy_mwh0) ==
    LET b1 == adjust_efficiency_for_temperature(b)
        energy_mwh == energy_mwh0
        b2 == [b1 EXCEPT !.soc =
                 Max(b1.soc - SocDelta(energy_mwh, b1.discharge_efficiency,
                                       b1.capacity_mwh), 0)]
    IN update_soh_and_cycles(b2, energy_mwh)

discharge(b, energy_mwh0) ==
    LET b1 == adjust_efficiency_for_temperature(b)
        energy_mwh == Min(energy_mwh0, b1.max_discharge_rate_mw * b1.duration_hours)
        b2 == [b1 EXCEPT !.soc =
                 Max(b1.soc - SocDelta(energy_mwh, b1.discharge_efficiency,
                                       b1.capacity_mwh), 0)]
    IN update_soh_and_cycles(b2, energy_mwh)

\* validate_initial_conditions without the test of initial_soh
validate_without_soh(capacity_mwh, initial_soc, initial_soh) ==
    /\ ~(capacity_mwh <= 0)
    /\ 0 <= initial_soc /\ initial_soc <= SocOne

\* TRUE when no ValueError is raised
validate_initial_conditions(capacity_mwh, initial_soc, initial_soh) ==
    /\ ~(capacity_mwh <= 0)
    /\ 0 <= initial_soc /\ initial_soc <= SocOne
    /\ SohCmp(SohZero, initial_soh) <= 0 /\ SohCmp(initial_soh, SohUnit) <= 0

\* the fields Battery.__init__ sets; duration_hours keeps its default 1.0
NewBattery(capacity_mwh, charge_efficiency, discharge_efficiency, initial_soc, initial_soh, max_charge_rate_mw, max_discharge_rate_mw, temperature_c) ==
    [capacity_mwh |-> capacity_mwh,
     charge_efficiency |-> charge_efficiency,
     discharge_efficiency |-> discharge_efficiency,
     max_charge_rate_mw |-> max_charge_rate_mw,
     max_discharge_rate_mw |-> max_discharge_rate_mw,
     initial_soc |-> initial_soc,
     soc |-> initial_soc,
     soh |-> initial_soh,
     temperature_c |-> temperature_c,
     cycle_count |-> 0,
     energy_cycled_mwh |-> 0,
     duration_hours |-> 1]

NoBattery == [constructed |-> FALSE]

\* Battery(...): the ValueError of validate_initial_conditions, or the object
Battery_init(capacity_mwh, charge_efficiency, discharge_efficiency, initial_soc, initial_soh, temperature_c) ==
    IF validate_initial_conditions(capacity_mwh, initial_soc, initial_soh)
    THEN [raised |-> FALSE,
          battery |-> NewBattery(capacity_mwh, charge_efficiency, discharge_efficiency,
                                 initial_soc, initial_soh, capacity_mwh, capacity_mwh,
                                 temperature_c)]
    ELSE [raised |-> TRUE, battery |-> NoBattery]

(***************************************************************************)
(* scripts/optimizer/model.py : the day's LP.                              *)
(* A model is the data build_model captures; an assignment x gives the     *)
(* four indexed variables as sequences (x.charge_vars[t + 1] is the        *)
(* variable of interval t).  soc_vars are numerators over SocDen(m) and    *)
(* energy_cycled_vars numerators over CycDen(m), so every equality of the  *)
(* LP is exact.                                                            *)
(***************************************************************************)
soc_lower_bound == 200
soc_upper_bound == 3800

build_model(num_intervals, prices_, b, timestep_hours, max_cycles_) ==
    [num_intervals |-> num_intervals,
     prices |-> prices_,
     battery |-> b,
     timestep_hours |-> timestep_hours,
     max_cycles |-> max_cycles_]

SocDen(m) == EffOne * m.battery.discharge_efficiency * m.battery.capacity_mwh
CycDen(m) == EffOne * m.battery.discharge_efficiency

\* define_variables: the domain and bounds of the variables of interval t
charge_bounds(m, x, t) ==
    /\ 0 <= x.charge_vars[t + 1]
    /\ x.charge_vars[t + 1] <= m.battery.capacity_mwh

discharge_bounds(m, x, t) ==
    /\ 0 <= x.discharge_vars[t + 1]
    /\ x.discharge_vars[t + 1] <= m.battery.capacity_mwh

\* soc_vars bounded by (0, 1) instead of (0.05, 0.95)
soc_bounds_unit_interval(m, x, t) ==
    /\ 0 <= x.soc_vars[t + 1]
    /\ x.soc_vars[t + 1] * SocOne <= SocOne * SocDen(m)

soc_bounds(m, x, t) ==
    /\ 0 <= x.soc_vars[t + 1]
    /\ soc_lower_bound * SocDen(m) <= x.soc_vars[t + 1] * SocOne
    /\ x.soc_vars[t + 1] * SocOne <= soc_upper_bound * SocDen(m)

energy_cycled_bounds(m, x, t) == 0 <= x.energy_cycled_vars[t + 1]

\* the objective with the charge cost counted as revenue
objective_rule_charge_earns(m, x) ==
    LET RECURSIVE Sum(_)
        Sum(t) == IF t < 0 THEN 0
                  ELSE Sum(t - 1)
                       + x.discharge_vars[t + 1] * m.prices[t + 1]
                           * m.battery.discharge_efficiency * m.battery.charge_efficiency
                       + x.charge_vars[t + 1] * m.prices[t + 1] * EffOne * EffOne
    IN [num |-> Sum(m.num_intervals - 1),
        den |-> EffOne * m.battery.charge_efficiency * m.timestep_hours]

\* the objective as a rational [num, den], in price * energy unit
objective_rule(m, x) ==
    LET RECURSIVE Sum(_)
        Sum(t) == IF t < 0 THEN 0
                  ELSE Sum(t - 1)
                       + x.discharge_vars[t + 1] * m.prices[t + 1]
                           * m.battery.discharge_efficiency * m.battery.charge_efficiency
                       - x.charge_vars[t + 1] * m.prices[t + 1] * EffOne * EffOne
    IN [num |-> Sum(m.num_intervals - 1),
        den |-> EffOne * m.battery.charge_efficiency * m.timestep_hours]

\* the model without the joint limit on charge and discharge
charging_discharging_rule_off(m, x, t) == t \in 0..(m.num_intervals - 1)

charging_discharging_rule(m, x, t) ==
    x.charge_vars[t + 1] + x.discharge_vars[t + 1] <= m.battery.capacity_mwh

\* right-hand side of the SOC update of interval t >= 1, over SocDen(m)
soc_update_rhs(m, x, t) ==
    x.soc_vars[t] + x.charge_vars[t] * m.battery.charge_efficiency
                                     * m.battery.discharge_efficiency
                  - x.discharge_vars[t] * EffOne * EffOne

soc_update_rule(m, x, t) ==
    IF t = 0 THEN TRUE ELSE x.soc_vars[t + 1] = soc_update_rhs(m, x, t)

\* right-hand side of the cycled-energy update of interval t >= 1, over CycDen(m)
energy_cycled_update_rhs(m, x, t) ==
    x.energy_cycled_vars[t] + x.charge_vars[t] * m.battery.charge_efficiency
                                               * m.battery.discharge_efficiency
                            + x.discharge_vars[t] * EffOne * EffOne

energy_cycled_update_rule(m, x, t) ==
    IF t = 0 THEN TRUE
    ELSE x.energy_cycled_vars[t + 1] = energy_cycled_update_rhs(m, x, t)

initial_soc_value(m) == (m.battery.initial_soc * SocDen(m)) \div SocOne

initial_soc_constraint(m, x) == x.soc_vars[1] = initial_soc_value(m)

max_cycles_constraint(m, x) ==
    x.energy_cycled_vars[m.num_intervals]
        <= m.max_cycles * m.battery.capacity_mwh * 2 * CycDen(m)

(***************************************************************************)
(* GLPKOptimizationSolver.solve.  GLPK is modelled by what it computes: an *)
(* objective-maximal point of the feasible set.  Charge and discharge      *)
(* range over a grid of energies that holds every optimal vertex of the LP *)
(* for the batteries and price vectors enumerated below (OnGrid); with     *)
(* ties the grid also holds optimal points between optimal vertices.       *)
(* soc_vars and energy_cycled_vars of interval t >= 1 take the one value   *)
(* their equality constraint leaves, soc_vars[0] the value of the initial  *)
(* soc constraint, and energy_cycled_vars[0], which no constraint fixes,   *)
(* its lower bound 0 (a larger value only tightens the cycle cap and does  *)
(* not enter the objective).                                               *)
(***************************************************************************)
LevelsPerMWh(m) ==
    IF m.battery.charge_efficiency = 9 /\ m.battery.discharge_efficiency = 9
    THEN {0, 81, 100, 162, 200}
    ELSE IF \E t \in 1..Len(m.prices) : m.prices[t] <= 0
    THEN {0, 4, 40, 45, 90, 160, 196, 200}
    ELSE {0, 45, 90, 200}

EnergyLevels(m) ==
    {(l * m.battery.capacity_mwh) \div MWh : l \in LevelsPerMWh(m)}

\* the grid holds the optimal vertices: negative prices need efficiencies 0.5
OnGrid(b, prices_) ==
    /\ b.charge_efficiency = b.discharge_efficiency
    /\ b.charge_efficiency \in {5, 9}
    /\ (\E t \in 1..Len(prices_) : prices_[t] <= 0) => b.charge_efficiency = 5

EmptyAssignment ==
    [charge_vars |-> <<>>, discharge_vars |-> <<>>,
     soc_vars |-> <<>>, energy_cycled_vars |-> <<>>]

\* x extended by the state variables of interval t
WithState(m, x, t) ==
    [x EXCEPT !.soc_vars = Append(x.soc_vars,
                  IF t = 0 THEN initial_soc_value(m) ELSE soc_update_rhs(m, x, t)),
              !.energy_cycled_vars = Append(x.energy_cycled_vars,
                  IF t = 0 THEN 0 ELSE energy_cycled_update_rhs(m, x, t))]

\* x extended by the decision variables of interval t
WithRow(m, x, t) ==
    {[x EXCEPT !.charge_vars = Append(x.charge_vars, c),
               !.discharge_vars = Append(x.discharge_vars, d)] :
        c \in EnergyLevels(m), d \in EnergyLevels(m)}

SetMin(S) == CHOOSE v \in S : \A w \in S : v <= w
SetMax(S) == 0 - SetMin({0 - v : v \in S})

\* the assignments of intervals 0..t that satisfy every indexed constraint
RECURSIVE Assignments(_, _)
Assignments(m, t) ==
    IF t < 0 THEN {EmptyAssignment}
    ELSE LET states == {y \in {WithState(m, x, t) : x \in Assignments(m, t - 1)} :
                           /\ soc_bounds(m, y, t)
                           /\ energy_cycled_bounds(m, y, t)
                           /\ soc_update_rule(m, y, t)
                           /\ energy_cycled_update_rule(m, y, t)
                           /\ (t = 0 => initial_soc_constraint(m, y))}
             rows == {z \in UNION {WithRow(m, y, t) : y \in states} :
                         /\ charge_bounds(m, z, t)
                         /\ discharge_bounds(m, z, t)
                         /\ charging_discharging_rule(m, z, t)}
         IN rows

FeasibleSet(m) ==
    {x \in Assignments(m, m.num_intervals - 1) :
        /\ initial_soc_constraint(m, x)
        /\ max_cycles_constraint(m, x)}

\* the results solve can return: [status, termination_condition, x]
solve(m) ==
    UNION {IF feasible = {}
           THEN {[status |-> "warning", termination_condition |-> "infeasible",
                  x |-> EmptyAssignment]}
           ELSE UNION {{[status |-> "ok", termination_condition |-> "optimal",
                         x |-> x] :
                           x \in {y \in feasible : objective_rule(m, y).num = best}} :
                       best \in {SetMax({objective_rule(m, y).num : y \in feasible})}} :
           feasible \in {FeasibleSet(m)}}

SolverStatuses == {"ok", "warning", "error"}

TerminationConditions ==
    {"optimal", "infeasible", "infeasibleOrUnbounded", "unbounded", "maxIterations",
     "other"}

\* a solve that ends without an optimum (time-out, iteration limit, error)
solve_without_optimum(m) ==
    {[status |-> r[1], termination_condition |-> r[2], x |-> EmptyAssignment] :
        r \in {q \in SolverStatuses \X TerminationConditions :
                  ~(q[1] = "ok" /\ q[2] = "optimal")}}

(***************************************************************************)
(* scripts/optimizer/scheduler.py                                          *)
(***************************************************************************)
\* the DataFrame: column[t + 1] is the cell of row t; SOC is over SOCden
extract_schedule(m, x, num_intervals) ==
    [Interval |-> [i \in 1..num_intervals |-> i - 1],
     Charge |-> SubSeq(x.charge_vars, 1, num_intervals),
     Discharge |-> SubSeq(x.discharge_vars, 1, num_intervals),
     SOC |-> SubSeq(x.soc_vars, 1, num_intervals),
     SOCden |-> SocDen(m)]

NoSchedule ==
    [Interval |-> <<>>, Charge |-> <<>>, Discharge |-> <<>>, SOC |-> <<>>, SOCden |-> 1]

default_timestep_hours == 1
default_max_cycles == 5

\* the text of the exception create_schedule raises
failure_message(result) ==
    <<"Optimization failed with status: ", result.status,
      ", condition: ", result.termination_condition>>

NoMessage == <<>>

\* create_schedule's branch that tests the status alone
schedule_or_raise_status_only(m, result, num_intervals) ==
    IF result.status = "ok"
    THEN [raised |-> FALSE,
          schedule |-> extract_schedule(m, result.x, num_intervals),
          extracted |-> TRUE,
          message |-> NoMessage,
          objective |-> objective_rule(m, result.x),
          status |-> result.status,
          condition |-> result.termination_condition]
    ELSE [raised |-> TRUE,
          schedule |-> NoSchedule,
          extracted |-> FALSE,
          message |-> failure_message(result),
          objective |-> [num |-> 0, den |-> 1],
          status |-> result.status,
          condition |-> result.termination_condition]

\* create_schedule after solve: the schedule extracted, or the exception;
\* extracted tells whether extract_schedule was called
schedule_or_raise(m, result, num_intervals) ==
    IF result.status = "ok" /\ result.termination_condition = "optimal"
    THEN [raised |-> FALSE,
          schedule |-> extract_schedule(m, result.x, num_intervals),
          extracted |-> TRUE,
          message |-> NoMessage,
          objective |-> objective_rule(m, result.x),
          status |-> result.status,
          condition |-> result.termination_condition]
    ELSE [raised |-> TRUE,
          schedule |-> NoSchedule,
          extracted |-> FALSE,
          message |-> failure_message(result),
          objective |-> [num |-> 0, den |-> 1],
          status |-> result.status,
          condition |-> result.termination_condition]

\* the outcomes of create_schedule when the solver ends without an optimum
create_schedule_without_optimum(b, prices_, timestep_hours, max_cycles_) ==
    LET num_intervals == Len(prices_)
        m == build_model(num_intervals, prices_, b, timestep_hours, max_cycles_)
    IN {schedule_or_raise(m, result, num_intervals) : result \in solve_without_optimum(m)}

\* the outcomes of create_schedule with the GLPK solver
create_schedule(b, prices_, timestep_hours, max_cycles_) ==
    LET num_intervals == Len(prices_)
        m == build_model(num_intervals, prices_, b, timestep_hours, max_cycles_)
    IN {schedule_or_raise(m, result, num_intervals) : result \in solve(m)}

(***************************************************************************)
(* scripts/market_simulator/pnl_calculator.py                              *)
(***************************************************************************)
\* rationals [num, den], den > 0
RatCmp(a, b) ==
    LET l == a.num * b.den
        r == b.num * a.den
    IN IF l < r THEN 0 - 1 ELSE IF l = r THEN 0 ELSE 1

RatZero == [num |-> 0, den |-> 1]

\* calculate with the charge cost multiplied by the charge efficiency
calculate_charge_times_eta(b, schedule, actual_prices_, timestep_hours) ==
    LET RECURSIVE Loop(_)
        Loop(i) ==
            IF i < 0 THEN 0
            ELSE LET charge_value == schedule.Charge[i + 1]
                     discharge_value == schedule.Discharge[i + 1]
                     price == actual_prices_[i + 1] * timestep_hours
                 IN Loop(i - 1)
                    + (IF charge_value > 0
                       THEN 0 - charge_value * price * b.charge_efficiency
                                                     * b.charge_efficiency
                       ELSE IF discharge_value > 0
                       THEN discharge_value * price * b.discharge_efficiency
                                                    * b.charge_efficiency
                       ELSE 0)
    IN IF Len(actual_prices_) > Len(schedule.Charge)
       THEN [raised |-> TRUE, pnl |-> RatZero]
       ELSE [raised |-> FALSE,
             pnl |-> [num |-> Loop(Len(actual_prices_) - 1),
                      den |-> EffOne * b.charge_efficiency]]

\* [raised, pnl]: the P&L in price * energy unit, or the KeyError of
\* schedule_df.at when actual_prices is longer than the schedule
calculate(b, schedule, actual_prices_, timestep_hours) ==
    LET RECURSIVE Loop(_)
        Loop(i) ==
            IF i < 0 THEN 0
            ELSE LET charge_value == schedule.Charge[i + 1]
                     discharge_value == schedule.Discharge[i + 1]
                     price == actual_prices_[i + 1] * timestep_hours
                 IN Loop(i - 1)
                    + (IF charge_value > 0
                       THEN 0 - charge_value * price * EffOne * EffOne
                       ELSE IF discharge_value > 0
                       THEN discharge_value * price * b.discharge_efficiency
                                                    * b.charge_efficiency
                       ELSE 0)
    IN IF Len(actual_prices_) > Len(schedule.Charge)
       THEN [raised |-> TRUE, pnl |-> RatZero]
       ELSE [raised |-> FALSE,
             pnl |-> [num |-> Loop(Len(actual_prices_) - 1),
                      den |-> EffOne * b.charge_efficiency]]

(***************************************************************************)
(* scripts/market_simulator/energy_market_simulator.py                     *)
(***************************************************************************)
NoCall == [op |-> "none", energy_mwh |-> 0]

\* row_call with the discharge branch tested first
row_call_discharge_first(schedule, i) ==
    LET charge_value == schedule.Charge[i + 1]
        discharge_value == schedule.Discharge[i + 1]
    IN IF discharge_value > 0
       THEN [op |-> "discharge", energy_mwh |-> discharge_value]
       ELSE IF charge_value > 0
       THEN [op |-> "charge", energy_mwh |-> charge_value]
       ELSE IF charge_value = 0 /\ discharge_value = 0
       THEN [op |-> "charge", energy_mwh |-> charge_value]
       ELSE NoCall

\* the Battery call the loop body of process_daily_schedule makes for row i
row_call(schedule, i) ==
    LET charge_value == schedule.Charge[i + 1]
        discharge_value == schedule.Discharge[i + 1]
    IN IF charge_value > 0
       THEN [op |-> "charge", energy_mwh |-> charge_value]
       ELSE IF discharge_value > 0
       THEN [op |-> "discharge", energy_mwh |-> discharge_value]
       ELSE IF charge_value = 0 /\ discharge_value = 0
       THEN [op |-> "charge", energy_mwh |-> charge_value]
       ELSE NoCall

apply_call(b, call) ==
    IF call.op = "charge" THEN charge(b, call.energy_mwh)
    ELSE IF call.op = "discharge" THEN discharge(b, call.energy_mwh)
    ELSE b

\* IPriceData.get_prices(date): the price source is a function of the date
get_prices(model, date) == model[(date % Len(model)) + 1]

(***************************************************************************)
(* scripts/prices/simulated_price.py                                       *)
(***************************************************************************)
\* prices of this section are in 1/16 of a currency unit
PriceOne == 16

\* the global generator of the random module: a state in 0..RngModulus - 1;
\* random() advances the state and returns state / RngModulus
RngModulus == 16

seed(n) == (7 * n + 3) % RngModulus

random(state) ==
    LET next == (5 * state + 1) % RngModulus
    IN [value |-> next, state |-> next]

\* (math.sin(x - pi / 2) + 1) / 2 and (math.sin(2 x - pi / 2) + 1) / 2 at
\* x = 2 pi i / 4, in halves
peak_sine_value(i) == <<0, 1, 2, 1>>[i + 1]
off_peak_sine_value(i) == <<0, 2, 0, 2>>[i + 1]

\* one iteration of generate's loop: [price, state]
envelope_price(config, i, state) ==
    LET span == (config.max_price - config.min_price) * PriceOne
        base == IF config.peak_start <= i /\ i < config.peak_end
                THEN config.min_price * PriceOne + (span * peak_sine_value(i)) \div 2
                ELSE config.min_price * PriceOne
                       + ((span \div 4) * off_peak_sine_value(i)) \div 2
        draw == random(state)
        \* random.uniform(-1, 1) * (max_price - min_price) / 20
        random_adjustment ==
            ((2 * draw.value - RngModulus) * span) \div (20 * RngModulus)
    IN [price |-> Max(config.min_price * PriceOne,
                      Min(base + random_adjustment, config.max_price * PriceOne)),
        state |-> draw.state]

RECURSIVE generate_loop(_, _, _)
generate_loop(config, n, state) ==
    IF n = 0 THEN [prices |-> <<>>, state |-> state]
    ELSE LET before == generate_loop(config, n - 1, state)
             this == envelope_price(config, n - 1, before.state)
         IN [prices |-> Append(before.prices, this.price), state |-> this.state]

\* generate without random.seed(date.toordinal())
generate_unseeded(config, date, state) ==
    generate_loop(config, config.num_intervals, state)

\* SimulatedPriceEnvelopeGenerator.generate: [prices, state]
generate(config, date, state) ==
    generate_loop(config, config.num_intervals, seed(date))

\* one iteration of add's loop: [price, state]
noisy_price(config, price, state) ==
    LET draw1 == random(state)
        \* random.uniform(-noise_level, noise_level)
        noise == ((2 * draw1.value - RngModulus) * config.noise_level * PriceOne)
                     \div RngModulus
        draw2 == random(draw1.state)
        new_price == IF draw2.value * config.spike_chance[2]
                          < config.spike_chance[1] * RngModulus
                     THEN ((price + noise) * config.spike_multiplier[1])
                              \div config.spike_multiplier[2]
                     ELSE price + noise
    IN [price |-> Max(0, new_price), state |-> draw2.state]

\* SimulatedPriceNoiseAdder.add: [prices, state]
RECURSIVE add(_, _, _)
add(config, prices_, state) ==
    IF prices_ = <<>> THEN [prices |-> <<>>, state |-> state]
    ELSE LET n == Len(prices_)
             before == add(config, SubSeq(prices_, 1, n - 1), state)
             this == noisy_price(config, prices_[n], before.state)
         IN [prices |-> Append(before.prices, this.price), state |-> this.state]

\* SimulatedPriceModel.get_prices: [planning, actual, state]
simulated_get_prices(config, date, state) ==
    LET envelope == generate(config, date, state)
        noisy == add(config, envelope.prices, envelope.state)
    IN [planning |-> envelope.prices, actual |-> noisy.prices, state |-> noisy.state]

(***************************************************************************)
(* The runs enumerated                                                     *)
(***************************************************************************)
MaxDays == 2
MaxCalls == 3

Pair(p, a) == [planning |-> p, actual |-> a]

PriceModels ==
    {<<Pair(<<20, 30>>, <<20, 30>>), Pair(<<30, 20>>, <<20, 30>>)>>,
     <<Pair(<<20, 20>>, <<20, 20>>), Pair(<<20, 20, 20>>, <<20, 20, 20>>)>>,
     <<Pair(<<10, 30, 20>>, <<10, 30, 20>>), Pair(<<20, 30>>, <<30, 10>>)>>,
     <<Pair(<<-5, -5>>, <<-5, -5>>), Pair(<<-5, 20>>, <<-5, 20>>)>>,
     <<Pair(<<20, 30>>, <<20>>), Pair(<<30, 20>>, <<>>)>>}

MaxCyclesValues == {0, default_max_cycles}

SimBatteries ==
    {NewBattery(cap, eff, eff, soc0, SohUnit, cap, cap, temp) :
        cap \in {MWh, 2 * MWh}, eff \in {9, 5}, temp \in {25, 65},
        soc0 \in {soc_lower_bound, SocOne \div 2, soc_upper_bound}}
    \cup {NewBattery(MWh, 9, 9, soc0, SohUnit, MWh, MWh, 25) : soc0 \in {0, SocOne}}

\* the efficiencies the battery has when day is planned
EfficiencyOnDay(b, day) ==
    IF day = 0 THEN b
    ELSE adjust_efficiency_for_temperature(b)

NoFault == 0 - 1

NoPlan ==
    [objective |-> RatZero, planned |-> FALSE, raised |-> FALSE, extracted |-> FALSE,
     message |-> NoMessage, status |-> "none", condition |-> "none"]

Init ==
    /\ battery \in SimBatteries
    /\ validate_initial_conditions(battery.capacity_mwh, battery.initial_soc, battery.soh)
    /\ price_model \in PriceModels
    /\ end_day \in 0..(MaxDays - 1)
    /\ fault_day \in {NoFault} \cup 0..end_day
    /\ random_state = 0
    /\ \A day \in 0..end_day :
          OnGrid(EfficiencyOnDay(battery, day), get_prices(price_model, day).planning)
    /\ max_cycles \in MaxCyclesValues
    /\ last_call = NoCall @@ [before |-> battery]
    /\ ops = 0
    /\ pc = "next_day"
    /\ current_day = 0
    /\ prices = <<>>
    /\ actual_prices = <<>>
    /\ schedule_df = NoSchedule
    /\ row = 0
    /\ results = <<>>
    /\ plan_call = NoPlan @@ [battery |-> battery]

\* Plan with a failed day skipped and the loop continuing
Plan_skip_failed_day ==
    /\ pc = "next_day"
    /\ LET pp == get_prices(price_model, current_day)
           outs == IF current_day = fault_day
                   THEN create_schedule_without_optimum(battery, pp.planning,
                            default_timestep_hours, max_cycles)
                   ELSE create_schedule(battery, pp.planning,
                                        default_timestep_hours, max_cycles)
       IN \E out \in outs :
            /\ prices' = pp.planning
            /\ actual_prices' = pp.actual
            /\ plan_call' = [objective |-> out.objective, planned |-> TRUE,
                             raised |-> out.raised, extracted |-> out.extracted,
                             message |-> out.message, status |-> out.status,
                             condition |-> out.condition, battery |-> battery]
            /\ IF out.raised
               THEN /\ pc' = IF current_day = end_day THEN "done" ELSE "next_day"
                    /\ current_day' = current_day + 1
                    /\ UNCHANGED schedule_df
               ELSE /\ pc' = "process"
                    /\ schedule_df' = out.schedule
                    /\ UNCHANGED current_day
            /\ row' = 0
    /\ UNCHANGED <<battery, last_call, ops, end_day, fault_day, random_state, max_cycles,
                   price_model, results>>

\* simulate: one iteration's get_prices and create_schedule
Plan ==
    /\ pc = "next_day"
    /\ LET pp == get_prices(price_model, current_day)
           outs == IF current_day = fault_day
                   THEN create_schedule_without_optimum(battery, pp.planning,
                            default_timestep_hours, max_cycles)
                   ELSE create_schedule(battery, pp.planning,
                                        default_timestep_hours, max_cycles)
       IN \E out \in outs :
            /\ prices' = pp.planning
            /\ actual_prices' = pp.actual
            /\ plan_call' = [objective |-> out.objective, planned |-> TRUE,
                             raised |-> out.raised, extracted |-> out.extracted,
                             message |-> out.message, status |-> out.status,
                             condition |-> out.condition, battery |-> battery]
            /\ IF out.raised
               THEN /\ pc' = "raised"
                    /\ UNCHANGED schedule_df
               ELSE /\ pc' = "process"
                    /\ schedule_df' = out.schedule
            /\ row' = 0
    /\ UNCHANGED <<battery, last_call, ops, current_day, end_day, fault_day, random_state, max_cycles,
                   price_model, results>>

\* ProcessRow testing the row's values against zero without their sign
ProcessRow_any_sign ==
    /\ pc = "process"
    /\ row < Len(schedule_df.Charge)
    /\ LET charge_value == schedule_df.Charge[row + 1]
           discharge_value == schedule_df.Discharge[row + 1]
           call == IF charge_value # 0
                   THEN [op |-> "charge", energy_mwh |-> charge_value]
                   ELSE [op |-> "discharge", energy_mwh |-> discharge_value]
       IN /\ battery' = apply_call(battery, call)
          /\ last_call' = call @@ [before |-> battery]
          /\ ops' = ops + 1
    /\ row' = row + 1
    /\ UNCHANGED <<pc, current_day, end_day, fault_day, random_state, max_cycles, price_model, prices,
                   actual_prices, schedule_df, results, plan_call>>

\* process_daily_schedule: one iteration of the loop over the rows
ProcessRow ==
    /\ pc = "process"
    /\ row < Len(schedule_df.Charge)
    /\ LET call == row_call(schedule_df, row)
       IN /\ battery' = apply_call(battery, call)
          /\ last_call' = call @@ [before |-> battery]
          /\ ops' = IF call.op = "none" THEN ops ELSE ops + 1
    /\ row' = row + 1
    /\ UNCHANGED <<pc, current_day, end_day, fault_day, random_state, max_cycles, price_model, prices,
                   actual_prices, schedule_df, results, plan_call>>

\* Account without waiting for the rows to be applied
Account_any_row ==
    /\ pc = "process"
    /\ row <= Len(schedule_df.Charge)
    /\ LET r == calculate(battery, schedule_df, actual_prices, default_timestep_hours)
       IN IF r.raised
          THEN /\ pc' = "raised"
               /\ UNCHANGED <<results, current_day>>
          ELSE /\ results' = Append(results, [date |-> current_day,
                                              schedule_df |-> schedule_df,
                                              daily_pnl |-> r.pnl])
               /\ current_day' = current_day + 1
               /\ pc' = IF current_day = end_day THEN "done" ELSE "next_day"
    /\ UNCHANGED <<battery, last_call, ops, end_day, fault_day, random_state, max_cycles, price_model,
                   prices, actual_prices, schedule_df, row, plan_call>>

\* run_daily_operation's calculate, and simulate's append and loop step
Account ==
    /\ pc = "process"
    /\ row = Len(schedule_df.Charge)
    /\ LET r == calculate(battery, schedule_df, actual_prices, default_timestep_hours)
       IN IF r.raised
          THEN /\ pc' = "raised"
               /\ UNCHANGED <<results, current_day>>
          ELSE /\ results' = Append(results, [date |-> current_day,
                                              schedule_df |-> schedule_df,
                                              daily_pnl |-> r.pnl])
               /\ current_day' = current_day + 1
               /\ pc' = IF current_day = end_day THEN "done" ELSE "next_day"
    /\ UNCHANGED <<battery, last_call, ops, end_day, fault_day, random_state, max_cycles, price_model,
                   prices, actual_prices, schedule_df, row, plan_call>>

Next == Plan \/ ProcessRow \/ Account

Spec == Init /\ [][Next]_vars

(***************************************************************************)
(* Direct calls of Battery.charge and Battery.discharge                    *)
(***************************************************************************)
CallEnergies == {0, 1, 100, 200, 300, 1000}

DirectBatteries ==
    {NewBattery(cap, eff[1], eff[2], soc0, soh0, rate, rate, temp) :
        cap \in {MWh, 2 * MWh},
        eff \in {<<9, 9>>, <<10, 8>>},
        soc0 \in {0, SocOne \div 2, SocOne},
        soh0 \in {SohUnit, SohOf(800), SohZero},
        rate \in {MWh, 2 * MWh},
        temp \in {25, 35}}
    \cup {NewBattery(MWh, eff[1], eff[2], SocOne \div 2, SohUnit, MWh, MWh, temp) :
            eff \in {<<12, 3>>, <<9, 7>>}, temp \in {0 - 5, 15, 125}}

BatteryInit ==
    /\ battery \in DirectBatteries
    /\ validate_initial_conditions(battery.capacity_mwh, battery.initial_soc, battery.soh)
    /\ last_call = NoCall @@ [before |-> battery]
    /\ ops = 0
    /\ pc = "direct"
    /\ current_day = 0
    /\ end_day = 0
    /\ fault_day = NoFault
    /\ random_state = 0
    /\ max_cycles = default_max_cycles
    /\ price_model = <<>>
    /\ prices = <<>>
    /\ actual_prices = <<>>
    /\ schedule_df = NoSchedule
    /\ row = 0
    /\ results = <<>>
    /\ plan_call = NoPlan @@ [battery |-> battery]

CallCharge ==
    /\ pc = "direct"
    /\ ops < MaxCalls
    /\ \E e \in CallEnergies :
          /\ battery' = charge(battery, e)
          /\ last_call' = [op |-> "charge", energy_mwh |-> e, before |-> battery]
    /\ ops' = ops + 1
    /\ UNCHANGED simvars

CallDischarge ==
    /\ pc = "direct"
    /\ ops < MaxCalls
    /\ \E e \in CallEnergies :
          /\ battery' = discharge(battery, e)
          /\ last_call' = [op |-> "discharge", energy_mwh |-> e, before |-> battery]
    /\ ops' = ops + 1
    /\ UNCHANGED simvars

BatteryNext == CallCharge \/ CallDischarge

BatterySpec == BatteryInit /\ [][BatteryNext]_vars

(***************************************************************************)
(* Direct calls of PnLCalculator.calculate on hand-made schedules          *)
(***************************************************************************)
MaxRows == 3

RowCharges == {0, MWh \div 2}
RowDischarges == {0, (3 * MWh) \div 4}
PnlPrices == {0 - 5, 20}

SeqsUpTo(S, n) == UNION {[1..k -> S] : k \in 1..n}

PnlSchedules ==
    {[Interval |-> [i \in 1..Len(c) |-> i - 1], Charge |-> c, Discharge |-> d,
      SOC |-> [i \in 1..Len(c) |-> 0], SOCden |-> 1] :
        c \in SeqsUpTo(RowCharges, MaxRows),
        d \in SeqsUpTo(RowDischarges, MaxRows)}

PnlBatteries ==
    {NewBattery(MWh, eff[1], eff[2], SocOne \div 2, SohUnit, MWh, MWh, 25) :
        eff \in {<<9, 8>>, <<5, 5>>}}

PnlInit ==
    /\ battery \in PnlBatteries
    /\ validate_initial_conditions(battery.capacity_mwh, battery.initial_soc, battery.soh)
    /\ schedule_df \in {sch \in PnlSchedules : Len(sch.Charge) = Len(sch.Discharge)}
    /\ actual_prices \in SeqsUpTo(PnlPrices, MaxRows)
    /\ last_call = NoCall @@ [before |-> battery]
    /\ ops = 0
    /\ pc = "pnl"
    /\ current_day = 0
    /\ end_day = 0
    /\ fault_day = NoFault
    /\ random_state = 0
    /\ max_cycles = default_max_cycles
    /\ price_model = <<>>
    /\ prices = <<>>
    /\ row = 0
    /\ results = <<>>
    /\ plan_call = NoPlan @@ [battery |-> battery]

CallCalculate ==
    /\ pc = "pnl"
    /\ LET r == calculate(battery, schedule_df, actual_prices, default_timestep_hours)
       IN IF r.raised
          THEN /\ pc' = "raised"
               /\ UNCHANGED results
          ELSE /\ pc' = "pnl_done"
               /\ results' = Append(results, [date |-> current_day,
                                              schedule_df |-> schedule_df,
                                              daily_pnl |-> r.pnl])
    /\ UNCHANGED <<battery, last_call, ops, current_day, end_day, fault_day, random_state, max_cycles,
                   price_model, prices, actual_prices, schedule_df, row, plan_call>>

PnlNext == CallCalculate

PnlSpec == PnlInit /\ [][PnlNext]_vars

(***************************************************************************)
(* Direct calls of create_schedule with a solver returning a given result  *)
(***************************************************************************)
SchedulerPrices == {get_prices(pm, 0).planning : pm \in PriceModels}

SchedulerInit ==
    /\ battery \in SimBatteries
    /\ validate_initial_conditions(battery.capacity_mwh, battery.initial_soc, battery.soh)
    /\ prices \in SchedulerPrices
    /\ OnGrid(battery, prices)
    /\ max_cycles \in MaxCyclesValues
    /\ last_call = NoCall @@ [before |-> battery]
    /\ ops = 0
    /\ pc = "scheduler"
    /\ current_day = 0
    /\ end_day = 0
    /\ fault_day = NoFault
    /\ random_state = 0
    /\ price_model = <<>>
    /\ actual_prices = <<>>
    /\ schedule_df = NoSchedule
    /\ row = 0
    /\ results = <<>>
    /\ plan_call = NoPlan @@ [battery |-> battery]

\* create_schedule with a solver whose result has the given status and
\* termination condition and leaves the values x in the model
CallCreateSchedule ==
    /\ pc = "scheduler"
    /\ LET num_intervals == Len(prices)
           m == build_model(num_intervals, prices, battery,
                            default_timestep_hours, max_cycles)
       IN \E st \in SolverStatuses, tc \in TerminationConditions,
             sol \in {r \in solve(m) : r.status = "ok"} :
            LET out == schedule_or_raise(
                           m, [status |-> st, termination_condition |-> tc,
                               x |-> sol.x], num_intervals)
            IN /\ plan_call' = [objective |-> out.objective, planned |-> TRUE,
                                raised |-> out.raised, extracted |-> out.extracted,
                                message |-> out.message, status |-> st,
                                condition |-> tc, battery |-> battery]
               /\ schedule_df' = out.schedule
               /\ pc' = IF out.raised THEN "raised" ELSE "scheduled"
    /\ UNCHANGED <<battery, last_call, ops, current_day, end_day, fault_day, random_state, max_cycles,
                   price_model, prices, actual_prices, row, results>>

SchedulerNext == CallCreateSchedule

SchedulerSpec == SchedulerInit /\ [][SchedulerNext]_vars

(***************************************************************************)
(* Construction of a Battery from arbitrary arguments                      *)
(***************************************************************************)
InitCapacities == {0 - MWh, 0, MWh, 2 * MWh}
InitSocs == {0 - (SocOne \div 10), 0, SocOne \div 2, SocOne, SocOne + (SocOne \div 10),
             SocOne + (SocOne \div 2)}
InitSohs == {SohOf(0 - 100), SohZero, SohOf(800), SohUnit, SohOf(1500)}
InitEfficiencies == {9, 5}
InitTemperatures == {25, 35}

ConstructInit ==
    /\ battery = NoBattery
    /\ last_call = NoCall @@ [before |-> NoBattery]
    /\ ops = 0
    /\ pc = "construct"
    /\ current_day = 0
    /\ end_day = 0
    /\ fault_day = NoFault
    /\ random_state = 0
    /\ max_cycles = default_max_cycles
    /\ price_model = <<>>
    /\ prices = <<>>
    /\ actual_prices = <<>>
    /\ schedule_df = NoSchedule
    /\ row = 0
    /\ results = <<>>
    /\ plan_call = NoPlan @@ [battery |-> NoBattery]

Construct ==
    /\ pc = "construct"
    /\ \E cap \in InitCapacities, soc0 \in InitSocs, soh0 \in InitSohs,
          eff \in InitEfficiencies, temp \in InitTemperatures :
          LET r == Battery_init(cap, eff, eff, soc0, soh0, temp)
          IN /\ battery' = r.battery
             /\ pc' = IF r.raised THEN "raised" ELSE "constructed"
             /\ last_call' = [op |-> "init", energy_mwh |-> 0, before |-> NoBattery,
                              capacity_mwh |-> cap, initial_soc |-> soc0,
                              initial_soh |-> soh0]
    /\ UNCHANGED <<ops, current_day, end_day, fault_day, random_state, max_cycles, price_model,
                   prices, actual_prices, schedule_df, row, results, plan_call>>

ConstructNext == Construct

ConstructSpec == ConstructInit /\ [][ConstructNext]_vars

(***************************************************************************)
(* Calls of SimulatedPriceModel.get_prices among other random draws        *)
(***************************************************************************)
MaxPriceCalls == 3

PriceDates == {0, 1, 2}

\* spike_chance and spike_multiplier are fractions <<numerator, denominator>>
PriceConfigs ==
    {[num_intervals |-> 4, min_price |-> lim[1], max_price |-> lim[2],
      peak_start |-> peak[1], peak_end |-> peak[2],
      noise_level |-> 5, spike_chance |-> <<1, 20>>, spike_multiplier |-> <<3, 2>>] :
        lim \in {<<0, 200>>, <<20, 100>>}, peak \in {<<16, 32>>, <<1, 3>>}}

PriceInit ==
    /\ price_model \in PriceConfigs
    /\ random_state \in 0..(RngModulus - 1)
    /\ battery = NoBattery
    /\ last_call = NoCall @@ [before |-> NoBattery]
    /\ ops = 0
    /\ pc = "prices"
    /\ current_day = 0
    /\ end_day = 0
    /\ fault_day = NoFault
    /\ max_cycles = default_max_cycles
    /\ prices = <<>>
    /\ actual_prices = <<>>
    /\ schedule_df = NoSchedule
    /\ row = 0
    /\ results = <<>>
    /\ plan_call = NoPlan @@ [battery |-> NoBattery]

\* price_model.get_prices(date); results keeps the calls made
CallGetPrices ==
    /\ pc = "prices"
    /\ Len(results) < MaxPriceCalls
    /\ \E date \in PriceDates :
          LET r == simulated_get_prices(price_model, date, random_state)
          IN /\ prices' = r.planning
             /\ actual_prices' = r.actual
             /\ random_state' = r.state
             /\ current_day' = date
             /\ results' = Append(results, [date |-> date, planning |-> r.planning,
                                            actual |-> r.actual])
    /\ UNCHANGED <<battery, last_call, ops, pc, end_day, fault_day, max_cycles,
                   price_model, schedule_df, row, plan_call>>

\* a draw from the global generator made by other code
OtherRandomDraw ==
    /\ pc = "prices"
    /\ random_state' = random(random_state).state
    /\ UNCHANGED <<battery, last_call, ops, pc, current_day, end_day, fault_day,
                   max_cycles, price_model, prices, actual_prices, schedule_df, row,
                   results, plan_call>>

PriceNext == CallGetPrices \/ OtherRandomDraw

PriceSpec == PriceInit /\ [][PriceNext]_vars

(***************************************************************************)
(* Battery.charge and Battery.discharge called with an energy of any sign  *)
(***************************************************************************)
SignedEnergies == CallEnergies \cup {0 - (MWh \div 2), 0 - 2 * MWh}

SignedBatteries ==
    {NewBattery(MWh, 9, 9, soc0, soh0, MWh, MWh, 25) :
        soc0 \in {0, SocOne \div 2, SocOne}, soh0 \in {SohUnit, SohZero}}

SignedInit ==
    /\ battery \in SignedBatteries
    /\ validate_initial_conditions(battery.capacity_mwh, battery.initial_soc, battery.soh)
    /\ last_call = NoCall @@ [before |-> battery]
    /\ ops = 0
    /\ pc = "signed"
    /\ current_day = 0
    /\ end_day = 0
    /\ fault_day = NoFault
    /\ random_state = 0
    /\ max_cycles = default_max_cycles
    /\ price_model = <<>>
    /\ prices = <<>>
    /\ actual_prices = <<>>
    /\ schedule_df = NoSchedule
    /\ row = 0
    /\ results = <<>>
    /\ plan_call = NoPlan @@ [battery |-> battery]

CallChargeSigned ==
    /\ pc = "signed"
    /\ ops < MaxCalls
    /\ \E e \in SignedEnergies :
          /\ battery' = charge(battery, e)
          /\ last_call' = [op |-> "charge", energy_mwh |-> e, before |-> battery]
    /\ ops' = ops + 1
    /\ UNCHANGED simvars

CallDischargeSigned ==
    /\ pc = "signed"
    /\ ops < MaxCalls
    /\ \E e \in SignedEnergies :
          /\ battery' = discharge(battery, e)
          /\ last_call' = [op |-> "discharge", energy_mwh |-> e, before |-> battery]
    /\ ops' = ops + 1
    /\ UNCHANGED simvars

SignedNext == CallChargeSigned \/ CallDischargeSigned

SignedSpec == SignedInit /\ [][SignedNext]_vars

(***************************************************************************)
(* run_daily_operation on a schedule handed over by a stubbed scheduler:   *)
(* process_daily_schedule row by row, then PnLCalculator.calculate.        *)
(* The schedules carry the small negative values a solver may return.      *)
(***************************************************************************)
NegativeNoise == 0 - 1

StubCharges == {NegativeNoise, 0, MWh \div 2}
StubDischarges == {NegativeNoise, 0, (3 * MWh) \div 4}

StubRows == SeqsUpTo(StubCharges \X StubDischarges, MaxRows)

StubSchedules ==
    {[Interval |-> [i \in 1..Len(rows) |-> i - 1],
      Charge |-> [i \in 1..Len(rows) |-> rows[i][1]],
      Discharge |-> [i \in 1..Len(rows) |-> rows[i][2]],
      SOC |-> [i \in 1..Len(rows) |-> 0], SOCden |-> 1] : rows \in StubRows}

StubBatteries ==
    {NewBattery(MWh, 9, 8, SocOne \div 2, SohUnit, MWh, MWh, temp) : temp \in {25, 35}}

StubInit ==
    /\ battery \in StubBatteries
    /\ validate_initial_conditions(battery.capacity_mwh, battery.initial_soc, battery.soh)
    /\ schedule_df \in StubSchedules
    /\ \E p \in PnlPrices : actual_prices = [i \in 1..Len(schedule_df.Charge) |-> p]
    /\ prices = actual_prices
    /\ last_call = NoCall @@ [before |-> battery]
    /\ ops = 0
    /\ pc = "process"
    /\ current_day = 0
    /\ end_day = 0
    /\ fault_day = NoFault
    /\ random_state = 0
    /\ max_cycles = default_max_cycles
    /\ price_model = <<>>
    /\ row = 0
    /\ results = <<>>
    /\ plan_call = NoPlan @@ [battery |-> battery]

StubNext == ProcessRow \/ Account

StubSpec == StubInit /\ [][StubNext]_vars

(***************************************************************************)
(* Properties                                                              *)
(***************************************************************************)
NumRows == Len(schedule_df.Charge)

\* a schedule of the current day exists (it is being applied or was accounted)
DayPlanned == pc \in {"process", "next_day", "done"} /\ plan_call.planned

\* the current day's schedule has been applied and accounted
DayAccounted == pc \in {"next_day", "done"} /\ Len(results) > 0

LastResult == results[Len(results)]

\* the energy the last call processed after the rate clamp
ClampedEnergy ==
    Min(last_call.energy_mwh,
        (IF last_call.op = "charge" THEN last_call.before.max_charge_rate_mw
                                    ELSE last_call.before.max_discharge_rate_mw)
            * last_call.before.duration_hours)

\* C1: the schedule planned for a day starts from the soc the battery has
\* when create_schedule is called: soc[0] = Battery.soc.
C1_PlanStartsAtCurrentSoc ==
    DayPlanned =>
        schedule_df.SOC[1] * SocOne = plan_call.battery.soc * schedule_df.SOCden

\* C2: at 25 C, from a battery whose soc is the schedule's soc[0], the soc
\* after applying rows 0..t-1 equals the schedule's SOC[t], for 1 <= t < N.
C2_ExecutionMatchesPlan ==
    (/\ pc = "process"
     /\ battery.temperature_c = temp_reference
     /\ schedule_df.SOC[1] * SocOne = plan_call.battery.soc * schedule_df.SOCden
     /\ row >= 1
     /\ row < NumRows)
    => battery.soc * schedule_df.SOCden = schedule_df.SOC[row + 1] * SocOne

\* the last call was a charge whose energy does not fit under soc 1.0
Overfills ==
    /\ last_call.op = "charge"
    /\ last_call.before.soc * EffOne * battery.capacity_mwh
         + ClampedEnergy * battery.charge_efficiency * SocOne
       > SocOne * EffOne * battery.capacity_mwh

\* the last call was a discharge of more than the battery held
Overdrains ==
    /\ last_call.op = "discharge"
    /\ last_call.before.soc * EffOne * battery.capacity_mwh
         - ClampedEnergy * battery.discharge_efficiency * SocOne
       < 0

ScheduleThroughput ==
    LET ec == plan_call.battery.charge_efficiency
        ed == plan_call.battery.discharge_efficiency
        RECURSIVE Sum(_)
        Sum(t) == IF t = 0 THEN 0
                  ELSE Sum(t - 1) + schedule_df.Charge[t] * ec * ed
                                  + schedule_df.Discharge[t] * EffOne * EffOne
    IN Sum(NumRows)

\* C5: in every schedule create_schedule returns, the throughput
\* c[t] * eta_c + d[t] / eta_d summed over all intervals 0..N-1 is at most
\* max_cycles * capacity_mwh * 2.
C5_CycleCapOverWholeHorizon ==
    DayPlanned =>
        ScheduleThroughput
            <= max_cycles * plan_call.battery.capacity_mwh * 2
                 * EffOne * plan_call.battery.discharge_efficiency

\* C6: with max_cycles = 0 the schedule has c[t] = d[t] = 0 in every
\* interval, the last included, and the day's P&L is 0.
C6_ZeroCyclesMeansIdle ==
    max_cycles = 0 =>
        /\ DayPlanned => \A t \in 1..NumRows :
                            schedule_df.Charge[t] = 0 /\ schedule_df.Discharge[t] = 0
        /\ DayAccounted => LastResult.daily_pnl.num = 0

IsConstant(p) == \A t \in 1..Len(p) : p[t] = p[1]

\* C7: with constant prices the optimal objective and the day's P&L are 0
\* and the battery's soc after the day is the soc it was planned from.
C7_FlatPricesDoNothing ==
    (DayPlanned /\ IsConstant(prices) /\ IsConstant(actual_prices)
       /\ actual_prices = prices)
    => /\ plan_call.objective.num = 0
       /\ (pc = "process" /\ row = NumRows) => battery.soc = plan_call.battery.soc
       /\ DayAccounted => /\ LastResult.daily_pnl.num = 0
                          /\ battery.soc = plan_call.battery.soc

\* 34.29 to the cent, in price * energy unit
IsAbout3429(pnl) ==
    /\ 100 * pnl.num >= 3428 * MWh * pnl.den
    /\ 100 * pnl.num <= 3430 * MWh * pnl.den

\* C8: N = 2, planning and actual prices [20, 30], efficiencies 0.9,
\* capacity 1, soc 0.5 (default max_cycles, 25 C): the schedule charges in
\* interval 0 and discharges in interval 1, and the P&L is about 34.29.
C8_TwoStepArbitrage ==
    (/\ DayPlanned
     /\ current_day = (IF DayAccounted THEN 1 ELSE 0)
     /\ prices = <<20, 30>> /\ actual_prices = <<20, 30>>
     /\ plan_call.battery.capacity_mwh = MWh
     /\ plan_call.battery.charge_efficiency = 9
     /\ plan_call.battery.discharge_efficiency = 9
     /\ plan_call.battery.soc = SocOne \div 2
     /\ battery.temperature_c = temp_reference
     /\ max_cycles = default_max_cycles)
    => /\ schedule_df.Charge[1] > 0
       /\ schedule_df.Discharge[2] > 0
       /\ DayAccounted => /\ LastResult.daily_pnl.num > 0
                          /\ IsAbout3429(LastResult.daily_pnl)

\* C9: no schedule the optimizer produces has a row with both charge > 0
\* and discharge > 0, whatever the prices.
C9_NoSimultaneousChargeDischarge ==
    DayPlanned =>
        \A t \in 1..NumRows :
            ~(schedule_df.Charge[t] > 0 /\ schedule_df.Discharge[t] > 0)

\* C10: when the day is accounted, PnLCalculator.calculate on the day's
\* schedule under the planning prices gives the LP objective of that
\* schedule.
C10_PnlMirrorsObjective ==
    (pc = "process" /\ row = NumRows)
    => LET r == calculate(battery, schedule_df, prices, default_timestep_hours)
       IN ~r.raised /\ RatCmp(r.pnl, plan_call.objective) = 0

\* the sum over the rows of the schedule with both terms applied to each row:
\* -Charge * price / eta_c + Discharge * price * eta_d, over EffOne * eta_c
IndependentBranchesPnl ==
    LET ec == battery.charge_efficiency
        ed == battery.discharge_efficiency
        RECURSIVE Sum(_)
        Sum(i) == IF i = 0 THEN 0
                  ELSE Sum(i - 1)
                       - schedule_df.Charge[i] * actual_prices[i] * EffOne * EffOne
                       + schedule_df.Discharge[i] * actual_prices[i] * ed * ec
    IN [num |-> Sum(NumRows), den |-> EffOne * ec]

NoSimultaneousRow ==
    \A i \in 1..NumRows : ~(schedule_df.Charge[i] > 0 /\ schedule_df.Discharge[i] > 0)

\* C11: on a schedule with no row that both charges and discharges (and a
\* price for every row), calculate returns the sum of
\* -Charge * price / eta_c over the charging rows and
\* +Discharge * price * eta_d over the discharging rows; zero rows add nothing.
C11_PnlIsSumOfRowTerms ==
    (pc = "pnl_done" /\ NoSimultaneousRow /\ Len(actual_prices) = NumRows)
    => RatCmp(LastResult.daily_pnl, IndependentBranchesPnl) = 0

C11_Witness ==
    /\ pc = "pnl_done" /\ NoSimultaneousRow /\ Len(actual_prices) = NumRows
    /\ NumRows = 3
    /\ \E i \in 1..NumRows : schedule_df.Charge[i] > 0
    /\ \E i \in 1..NumRows : schedule_df.Discharge[i] > 0
    /\ \E i \in 1..NumRows : schedule_df.Charge[i] = 0 /\ schedule_df.Discharge[i] = 0
    /\ LastResult.daily_pnl.num # 0
    /\ RatCmp(LastResult.daily_pnl, IndependentBranchesPnl) = 0

\* C12: calculate applies the charge term and the discharge term of a row
\* independently, so a row with Charge > 0 and Discharge > 0 contributes
\* -Charge * price / eta_c + Discharge * price * eta_d.
C12_BothBranchesApplied ==
    (pc = "pnl_done" /\ Len(actual_prices) = NumRows)
    => RatCmp(LastResult.daily_pnl, IndependentBranchesPnl) = 0

\* C13: create_schedule returns the extracted schedule exactly when the
\* solver status is ok and the termination condition is optimal; for every
\* other pair it raises an exception naming the status and the condition,
\* and extract_schedule is not called.
C13_ScheduleIffOkOptimal ==
    pc \in {"scheduled", "raised"} =>
        /\ (pc = "scheduled") <=> (plan_call.status = "ok" /\ plan_call.condition = "optimal")
        /\ pc = "scheduled" =>
              /\ ~plan_call.raised /\ plan_call.extracted
              /\ Len(schedule_df.Charge) = Len(prices)
        /\ pc = "raised" =>
              /\ plan_call.raised /\ ~plan_call.extracted
              /\ schedule_df = NoSchedule
              /\ plan_call.message[2] = plan_call.status
              /\ plan_call.message[4] = plan_call.condition

C13_Witness ==
    /\ pc = "raised"
    /\ plan_call.status = "ok"
    /\ plan_call.condition = "unbounded"
    /\ ~plan_call.extracted
    /\ plan_call.message[4] = "unbounded"

\* C14: when optimization fails on a day the run stops there: the battery is
\* as it was when create_schedule was called, the results hold exactly the
\* days before it, and nothing is planned, applied or accounted afterwards.
C14_FailedDayAbortsRun ==
    /\ [](plan_call.raised =>
            /\ pc = "raised"
            /\ battery = plan_call.battery
            /\ Len(results) = current_day
            /\ \A i \in 1..Len(results) : results[i].date < current_day)
    /\ [][~plan_call.raised]_vars

C14_Witness ==
    /\ plan_call.raised
    /\ pc = "raised"
    /\ current_day = 1
    /\ Len(results) = 1
    /\ ops > 0
    /\ battery = plan_call.battery
    /\ battery.soc # battery.initial_soc

\* the P&L calculate gives for an accounted day: its schedule under the
\* actual prices of its date
AccountedPnl(result) ==
    calculate(battery, result.schedule_df,
              get_prices(price_model, result.date).actual, default_timestep_hours).pnl

\* C15: simulate processes the days 0..end_day in order, each once: the
\* results are dated 0, 1, ... and number end_day + 1 at the end, each
\* daily_pnl is calculate(the day's schedule, the day's actual prices), and
\* within a day the schedule is planned, then applied row by row, then
\* accounted.
C15_DaysInOrder ==
    /\ [](pc \in {"next_day", "process", "done"} =>
            /\ Len(results) = current_day
            /\ \A i \in 1..Len(results) : results[i].date = i - 1
            /\ pc = "done" <=> current_day = end_day + 1
            /\ DayAccounted =>
                  /\ LastResult.schedule_df = schedule_df
                  /\ row = NumRows
                  /\ RatCmp(LastResult.daily_pnl, AccountedPnl(LastResult)) = 0)
    /\ [][/\ pc = "next_day" =>
                /\ pc' \in {"process", "raised"}
                /\ row' = 0
                /\ battery' = battery /\ results' = results
                /\ current_day' = current_day
          /\ (pc = "process" /\ row < NumRows) =>
                /\ pc' = "process"
                /\ row' = row + 1
                /\ schedule_df' = schedule_df
                /\ results' = results /\ current_day' = current_day
          /\ (pc = "process" /\ row = NumRows) =>
                /\ pc' \in {"next_day", "done", "raised"}
                /\ battery' = battery
                /\ pc' # "raised" =>
                      /\ current_day' = current_day + 1
                      /\ Len(results') = Len(results) + 1
          /\ pc \notin {"next_day", "process"} => FALSE]_vars

C15_Witness ==
    /\ pc = "done"
    /\ end_day = 1
    /\ Len(results) = 2
    /\ results[1].date = 0 /\ results[2].date = 1
    /\ results[1].schedule_df # results[2].schedule_df
    /\ results[2].daily_pnl.num # 0
    /\ ops >= 4

\* C16: a day for which the price source gives fewer actual prices than the
\* schedule has rows ends the run with an error; no result is appended whose
\* P&L covers only part of the applied schedule.
C16_ShortPricesAbortRun ==
    \A i \in 1..Len(results) :
        Len(get_prices(price_model, results[i].date).actual)
            >= Len(results[i].schedule_df.Charge)

\* the arguments of the last Battery(...) call are not a valid configuration
InvalidArguments ==
    \/ last_call.capacity_mwh <= 0
    \/ last_call.initial_soc < 0 \/ last_call.initial_soc > SocOne
    \/ SohCmp(last_call.initial_soh, SohZero) < 0
    \/ SohCmp(last_call.initial_soh, SohUnit) > 0

\* C17: Battery(...) raises ValueError exactly when capacity_mwh <= 0 or
\* initial_soc or initial_soh is outside [0, 1]; a Battery that is created
\* has a positive capacity and soc and soh in [0, 1].
C17_ConstructorValidates ==
    pc \in {"constructed", "raised"} =>
        /\ pc = "raised" <=> InvalidArguments
        /\ pc = "raised" => battery = NoBattery
        /\ pc = "constructed" =>
              /\ battery.capacity_mwh > 0
              /\ battery.capacity_mwh = last_call.capacity_mwh
              /\ 0 <= battery.soc /\ battery.soc <= SocOne
              /\ battery.soc = last_call.initial_soc
              /\ SohCmp(SohZero, battery.soh) <= 0
              /\ SohCmp(battery.soh, SohUnit) <= 0
              /\ battery.soh = last_call.initial_soh

C17_Witness ==
    /\ pc = "raised"
    /\ battery = NoBattery
    /\ last_call.capacity_mwh = MWh
    /\ last_call.initial_soc = SocOne \div 2
    /\ last_call.initial_soh = SohOf(1500)

ClampEfficiency(eff) == IF eff < 5 THEN 5 ELSE IF eff > 10 THEN 10 ELSE eff

\* |T - 25| * 0.01 in tenths
TemperatureEffect == Abs(last_call.before.temperature_c - 25) \div 10

\* C18: after every charge or discharge both efficiencies are in [0.5, 1.0],
\* whatever the temperature and the efficiencies the battery was built
\* with, and each is clamp(eta - |T - 25| * 0.01, 0.5, 1.0) of its value
\* before the call.
C18_EfficienciesStayInRange ==
    last_call.op \in {"charge", "discharge"} =>
        /\ 5 <= battery.charge_efficiency /\ battery.charge_efficiency <= 10
        /\ 5 <= battery.discharge_efficiency /\ battery.discharge_efficiency <= 10
        /\ battery.charge_efficiency
             = ClampEfficiency(last_call.before.charge_efficiency - TemperatureEffect)
        /\ battery.discharge_efficiency
             = ClampEfficiency(last_call.before.discharge_efficiency - TemperatureEffect)

C18_Witness ==
    /\ last_call.op \in {"charge", "discharge"}
    /\ last_call.before.temperature_c = 15
    /\ last_call.before.charge_efficiency = 12
    /\ last_call.before.discharge_efficiency = 3
    /\ battery.charge_efficiency = 10
    /\ battery.discharge_efficiency = 5

TotalCharge ==
    LET RECURSIVE Sum(_)
        Sum(t) == IF t = 0 THEN 0 ELSE Sum(t - 1) + schedule_df.Charge[t]
    IN Sum(NumRows)

\* C20: when every price of the day is negative the optimal schedule
\* charges: the sum of Charge over the horizon is strictly positive.
C20_NegativePricesCharge ==
    (DayPlanned /\ \A t \in 1..Len(prices) : prices[t] < 0) => TotalCharge > 0

C20_Witness ==
    /\ DayPlanned
    /\ Len(prices) = 2
    /\ \A t \in 1..Len(prices) : prices[t] < 0
    /\ plan_call.battery.soc = soc_upper_bound
    /\ TotalCharge > plan_call.battery.capacity_mwh

\* C21: two get_prices calls with the same date and configuration return
\* the same planning and actual vectors whatever was drawn in between; both
\* vectors have num_intervals entries, envelope prices lie in
\* [min_price, max_price] and noisy prices are >= 0.
C21_SimulatedPricesReproducible ==
    pc = "prices" =>
        /\ \A i, j \in 1..Len(results) :
              results[i].date = results[j].date =>
                  /\ results[i].planning = results[j].planning
                  /\ results[i].actual = results[j].actual
        /\ \A i \in 1..Len(results) :
              /\ Len(results[i].planning) = price_model.num_intervals
              /\ Len(results[i].actual) = price_model.num_intervals
              /\ \A t \in 1..Len(results[i].planning) :
                    /\ price_model.min_price * 16 <= results[i].planning[t]
                    /\ results[i].planning[t] <= price_model.max_price * 16
              /\ \A t \in 1..Len(results[i].actual) : results[i].actual[t] >= 0

C21_Witness ==
    /\ pc = "prices"
    /\ Len(results) = 3
    /\ results[1].date = results[3].date
    /\ results[2].date # results[1].date
    /\ results[1].planning = results[3].planning
    /\ results[1].actual = results[3].actual
    /\ results[1].planning # results[2].planning
    /\ results[1].actual # results[1].planning
    /\ \E t \in 1..4 : results[1].planning[t] = price_model.max_price * 16
    /\ \E t \in 1..4 : results[1].actual[t] = 0

\* the row process_daily_schedule applied last is a zero row
ZeroRowApplied ==
    /\ pc = "process"
    /\ row >= 1
    /\ schedule_df.Charge[row] = 0
    /\ schedule_df.Discharge[row] = 0

\* C22: applying a row with Charge = 0 and Discharge = 0 leaves soc, soh,
\* cycle_count, energy_cycled_mwh and both efficiencies as they were,
\* whatever the battery's history and temperature.
C22_ZeroRowIsNoOp ==
    ZeroRowApplied =>
        /\ battery.soc = last_call.before.soc
        /\ battery.soh = last_call.before.soh
        /\ battery.cycle_count = last_call.before.cycle_count
        /\ battery.energy_cycled_mwh = last_call.before.energy_cycled_mwh
        /\ battery.charge_efficiency = last_call.before.charge_efficiency
        /\ battery.discharge_efficiency = last_call.before.discharge_efficiency

\* C23: every charge or discharge adds E / (2 * capacity_mwh) to
\* cycle_count, E being the rate-clamped energy of that one operation.
C23_CyclesGrowByOperationEnergy ==
    last_call.op \in {"charge", "discharge"} =>
        (battery.cycle_count - last_call.before.cycle_count)
                * 2 * last_call.before.capacity_mwh
            = ClampedEnergy * CycleOne

\* soc values times EffOne * capacity_mwh, so that E * eta / capacity_mwh
\* needs no division
SocScale == EffOne * last_call.before.capacity_mwh

RowActs(i) == schedule_df.Charge[i] > 0 \/ schedule_df.Discharge[i] > 0

\* the battery after rows 1..k, each applied once and in interval order as
\* a charge if Charge > 0 and else as a discharge
RECURSIVE AppliedInOrder(_)
AppliedInOrder(k) ==
    IF k = 0 THEN plan_call.battery
    ELSE IF schedule_df.Charge[k] > 0
    THEN charge(AppliedInOrder(k - 1), schedule_df.Charge[k])
    ELSE discharge(AppliedInOrder(k - 1), schedule_df.Discharge[k])

\* C25: a row with Charge > 0 makes exactly one charge call and no
\* discharge call, even if its Discharge is > 0 too; a row with Charge <= 0
\* and Discharge > 0 makes exactly one discharge call; rows are applied in
\* interval order.
C25_ChargeXorDischargePerRow ==
    (pc = "process" /\ row >= 1) =>
        /\ schedule_df.Charge[row] > 0 =>
              /\ last_call.op = "charge"
              /\ last_call.energy_mwh = schedule_df.Charge[row]
              /\ battery = charge(last_call.before, schedule_df.Charge[row])
        /\ (schedule_df.Charge[row] <= 0 /\ schedule_df.Discharge[row] > 0) =>
              /\ last_call.op = "discharge"
              /\ last_call.energy_mwh = schedule_df.Discharge[row]
              /\ battery = discharge(last_call.before, schedule_df.Discharge[row])
        /\ ops <= row
        /\ (\A i \in 1..row : RowActs(i)) =>
              /\ ops = row
              /\ battery = AppliedInOrder(row)

\* the last row of three asked for both and was applied as a charge, after
\* a discharge row with a negative Charge
C25_Witness ==
    /\ pc = "process"
    /\ row = 3
    /\ \A i \in 1..row : RowActs(i)
    /\ schedule_df.Charge[2] < 0
    /\ schedule_df.Charge[3] > 0
    /\ schedule_df.Discharge[3] > 0
    /\ last_call.op = "charge"
    /\ battery.soc > last_call.before.soc

\* the schedule with its negative values replaced by zero
WithoutNegatives(schedule) ==
    [schedule EXCEPT
        !.Charge = [i \in 1..Len(schedule.Charge) |-> Max(schedule.Charge[i], 0)],
        !.Discharge = [i \in 1..Len(schedule.Discharge) |->
                          Max(schedule.Discharge[i], 0)]]

\* C26: no negative Charge or Discharge value of a schedule is passed to
\* Battery.charge or Battery.discharge, and none adds a term to the P&L:
\* the day's P&L is that of the schedule with its negatives set to zero.
C26_NegativesNeverApplied ==
    /\ last_call.op \in {"charge", "discharge"} => last_call.energy_mwh >= 0
    /\ (pc = "process" /\ row >= 1 /\ last_call.op \in {"charge", "discharge"}) =>
          last_call.energy_mwh
              \in {v \in {schedule_df.Charge[row], schedule_df.Discharge[row]} : v >= 0}
    /\ DayAccounted =>
          RatCmp(LastResult.daily_pnl,
                 calculate(battery, WithoutNegatives(schedule_df), actual_prices,
                           default_timestep_hours).pnl) = 0

\* a day accounted whose schedule had a row with only a negative Charge, for
\* which no call was made, and a discharge row with a negative Charge
C26_Witness ==
    /\ DayAccounted
    /\ NumRows = 3
    /\ schedule_df.Charge[1] < 0 /\ schedule_df.Discharge[1] = 0
    /\ schedule_df.Charge[2] < 0 /\ schedule_df.Discharge[2] > 0
    /\ schedule_df.Charge[3] > 0 /\ schedule_df.Discharge[3] < 0
    /\ ops = 2
    /\ LastResult.daily_pnl.num # 0

\* C27: in every schedule create_schedule returns, for each interval t, the
\* last included, d[t] / eta_d <= (soc[t] - 0.05) * capacity_mwh and
\* c[t] * eta_c <= (0.95 - soc[t]) * capacity_mwh.
C27_FlowsWithinStoredEnergy ==
    DayPlanned =>
        \A t \in 1..NumRows :
            /\ schedule_df.Discharge[t] * EffOne * 20 * schedule_df.SOCden
                 <= plan_call.battery.discharge_efficiency
                      * plan_call.battery.capacity_mwh
                      * (20 * schedule_df.SOC[t] - schedule_df.SOCden)
            /\ schedule_df.Charge[t] * plan_call.battery.charge_efficiency
                      * 20 * schedule_df.SOCden
                 <= EffOne * plan_call.battery.capacity_mwh
                      * (19 * schedule_df.SOCden - 20 * schedule_df.SOC[t])

\* an efficiency after the last call against its value before: not higher,
\* the same at 25 C, and lower by |T - 25| * 0.01 but not below 0.5 at any
\* other temperature
EfficiencyStep(old, new) ==
    /\ new <= old
    /\ last_call.before.temperature_c = temp_reference => new = old
    /\ last_call.before.temperature_c # temp_reference =>
          new = Max(eff_floor, old - TemperatureEffect)

InUnitRange(eff) == eff_floor <= eff /\ eff <= eff_ceiling

\* C28 as stated: over any sequence of charge and discharge calls the two
\* efficiencies never increase; at 25 C (efficiencies constructed in
\* [0.5, 1.0]) they keep their constructed values, at any other temperature
\* every call lowers them by |T - 25| * 0.01 until 0.5, where they stay.
C28_EfficienciesNeverIncrease ==
    last_call.op \in {"charge", "discharge"} =>
        /\ battery.charge_efficiency <= last_call.before.charge_efficiency
        /\ battery.discharge_efficiency <= last_call.before.discharge_efficiency
        /\ (/\ last_call.before.temperature_c = temp_reference
            /\ InUnitRange(last_call.before.charge_efficiency)
            /\ InUnitRange(last_call.before.discharge_efficiency)) =>
              /\ battery.charge_efficiency = last_call.before.charge_efficiency
              /\ battery.discharge_efficiency = last_call.before.discharge_efficiency
        /\ last_call.before.temperature_c # temp_reference =>
              /\ EfficiencyStep(last_call.before.charge_efficiency,
                                battery.charge_efficiency)
              /\ EfficiencyStep(last_call.before.discharge_efficiency,
                                battery.discharge_efficiency)

\* C28 amended: an efficiency that is in [0.5, 1.0] before a charge or
\* discharge call (every efficiency from the second call on, and from the
\* first if so constructed) is not higher after it: unchanged at 25 C, and
\* at any other temperature lower by |T - 25| * 0.01, but not below 0.5.
C28_EfficienciesInRangeNeverIncrease ==
    last_call.op \in {"charge", "discharge"} =>
        /\ InUnitRange(last_call.before.charge_efficiency) =>
              EfficiencyStep(last_call.before.charge_efficiency,
                             battery.charge_efficiency)
        /\ InUnitRange(last_call.before.discharge_efficiency) =>
              EfficiencyStep(last_call.before.discharge_efficiency,
                             battery.discharge_efficiency)
        /\ ops >= 2 =>
              /\ InUnitRange(last_call.before.charge_efficiency)
              /\ InUnitRange(last_call.before.discharge_efficiency)

\* a third call away from 25 C: the charge efficiency drops by the
\* temperature effect, the discharge efficiency is at 0.5 and stays there
C28_Witness ==
    /\ last_call.op \in {"charge", "discharge"}
    /\ ops = 3
    /\ last_call.before.temperature_c # temp_reference
    /\ battery.charge_efficiency
          = last_call.before.charge_efficiency - TemperatureEffect
    /\ battery.charge_efficiency > eff_floor
    /\ last_call.before.discharge_efficiency = eff_floor
    /\ battery.discharge_efficiency = eff_floor

\* C29: for an energy argument of any sign, charge never lowers soc,
\* discharge never raises soc, energy_cycled_mwh never decreases, soc stays
\* in [0, 1] and soh in [0, 1].
C29_AnyEnergyKeepsInvariants ==
    last_call.op \in {"charge", "discharge"} =>
        /\ last_call.op = "charge" => battery.soc >= last_call.before.soc
        /\ last_call.op = "discharge" => battery.soc <= last_call.before.soc
        /\ battery.energy_cycled_mwh >= last_call.before.energy_cycled_mwh
        /\ 0 <= battery.soc /\ battery.soc <= SocOne
        /\ SohCmp(battery.soh, SohZero) >= 0
        /\ SohCmp(battery.soh, SohUnit) <= 0

\* the initial_soc the battery was constructed with lies in [0.05, 0.95]
InitialSocInBounds ==
    /\ soc_lower_bound <= battery.initial_soc
    /\ battery.initial_soc <= soc_upper_bound

\* the solver ran on the LP of the day planned last (no stubbed failure)
LpSolved == plan_call.planned /\ ~(pc = "raised" /\ current_day = fault_day)

\* C30: whether a day's LP is feasible depends on the battery's initial_soc
\* alone: with initial_soc in [0.05, 0.95] it is feasible on every day, for
\* all prices and every max_cycles >= 0; with initial_soc in [0, 0.05) or
\* (0.95, 1] it is infeasible and create_schedule raises on the first day.
C30_FeasibilityDependsOnInitialSoc ==
    /\ LpSolved =>
          /\ plan_call.raised <=> ~InitialSocInBounds
          /\ plan_call.condition = "infeasible" <=> ~InitialSocInBounds
    /\ (plan_call.raised /\ ~InitialSocInBounds) =>
          /\ pc = "raised"
          /\ current_day = 0
          /\ results = <<>>
          /\ ops = 0

\* a battery constructed full whose first day fails as infeasible
C30_Witness ==
    /\ LpSolved
    /\ fault_day = NoFault
    /\ battery.initial_soc = SocOne
    /\ plan_call.raised
    /\ plan_call.condition = "infeasible"
    /\ pc = "raised"
    /\ current_day = 0

====
